---- MODULE Spec2Model ----
(***************************************************************************)
(* Model of installer/installer.go: the Installer facade with its          *)
(* in-memory cluster registry, its ql storage (clusters, aws_clusters,     *)
(* domains), its event log and its locks.  Every facade call is a          *)
(* goroutine that runs the handler's code step by step; steps are split    *)
(* at lock acquisitions and at storage operations, so that every           *)
(* interleaving the Go scheduler can produce at those points is explored.  *)
(***************************************************************************)
EXTENDS Naturals, Integers, Sequences, FiniteSets, TLC

\* ------------------------------------------------------------------ bounds
NumCalls == 3       \* facade calls made over the life of the process
MaxConc == 2        \* calls in flight at the same time
NumIds == 2         \* distinct cluster ids
NumSubs == 1        \* event subscribers
NumCredCalls == 3   \* credential calls made over the life of the process
NumGo == 2          \* goroutines that use one stream.Basic
MaxOps == 2         \* Close / IsClosed calls each goroutine makes
MaxRestarts == 1    \* times the process is stopped and NewInstaller runs again

Calls == 1..NumCalls
Ids == 1..NumIds
Subs == 1..NumSubs
CredCalls == 1..NumCredCalls
Gos == 1..NumGo
None == 0           \* nil pointer / no lock holder / no id

\* ------------------------------------------------------------------ state
VARIABLES
    pc,             \* pc[c]: position of call c in its handler
    req,            \* req[c]: the call's arguments
    res,            \* res[c]: what the call returned (err, value)
    ferr,           \* ferr[c]: err of the FindCluster that DeleteCluster called
    clusters,       \* i.clusters: the registry, a slice of *AWSCluster
    clustersTbl,    \* committed rows of table clusters, per ID
    awsTbl,         \* committed rows of table aws_clusters, per ClusterID
    domains,        \* ClusterIDs with a row in table domains
    tx,             \* the open transaction's uncommitted inserts
    dbMtx,          \* i.dbMtx (sync.RWMutex)
    clustersMtx,    \* i.clustersMtx (sync.RWMutex)
    eventsMtx,      \* i.eventsMtx (sync.Mutex): holder or None
    events,         \* i.events: the event log
    subs,           \* subs[s]: "none", "live" or "closed"
    inbox,          \* inbox[s]: events delivered to subscriber s
    running,        \* AWSClusters whose Run() was started
    subsAtCall,     \* subsAtCall[c]: subscribers live when launch c began
    credentials,    \* committed rows of table credentials: [ID, Secret]
    credTx,         \* the open credentials transaction's uncommitted rows
    credCall,       \* credCall[c]: a Save/FindAWSCredentials call
    basic,          \* the stream.Basic that New() returned (*Basic)
    gor,            \* gor[g]: a goroutine calling Close / IsClosed on it
    panicked,       \* a goroutine panicked (the process is gone)
    restarts        \* times NewInstaller ran again over the same storage

credVars == <<credentials, credTx, credCall>>
streamVars == <<basic, gor, panicked>>
sideVars == <<credVars, streamVars, restarts>>

vars == <<pc, req, res, ferr, clusters, clustersTbl, awsTbl, domains, tx,
          dbMtx, clustersMtx, eventsMtx, events, subs, inbox, running,
          subsAtCall, credentials, credTx, credCall, basic, gor, panicked,
          restarts>>

dbVars == <<clustersTbl, awsTbl, domains, tx>>
regVars == <<clusters, clustersMtx>>
evVars == <<eventsMtx, events, inbox>>

\* ------------------------------------------------------------------ values
NoReq == [op |-> "none", id |-> None, type |-> "none", cred |-> "", after |-> FALSE]
NoRes == [err |-> "pending", kind |-> "none", ptr |-> None, id |-> None, dom |-> FALSE]
NoTx == [open |-> FALSE, clusters |-> {}, aws |-> {}]
Unlocked == [w |-> None, r |-> {}]

\* return nil / return err: no cluster value
RetErr(e) == [err |-> e, kind |-> "nil", ptr |-> None, id |-> None, dom |-> FALSE]
RetNil == RetErr("nil")

\* errors.New("Cluster not found"): declared, returned by nothing in this file
ClusterNotFoundError == "ClusterNotFoundError"

\* sync.RWMutex / sync.Mutex (not reentrant: the holder itself waits too)
CanLock(m) == m.w = None /\ m.r = {}
CanRLock(m) == m.w = None
Lock(m, c) == [m EXCEPT !.w = c]
RLock(m, c) == [m EXCEPT !.r = @ \cup {c}]
Unlock(m) == [m EXCEPT !.w = None]
RUnlock(m, c) == [m EXCEPT !.r = @ \ {c}]

\* An *AWSCluster: ptr is the pointer's identity (the launching call),
\* ClusterID its field, cluster its embedded generic *Cluster with ID.
AWSCluster(c, id) == [ptr |-> c, ClusterID |-> id, cluster |-> [ID |-> id]]

Event(type, ptr, id) == [Type |-> type, Cluster |-> ptr, ClusterID |-> id]

RECURSIVE SelectIdx(_, _, _)
\* index of the first registry entry with ClusterID = id from position k, or 0
SelectIdx(s, id, k) ==
    IF k > Len(s) THEN 0
    ELSE IF s[k].ClusterID = id THEN k
    ELSE SelectIdx(s, id, k + 1)

\* the for loop of FindCluster over i.clusters
RegistryLookup(s, id) == SelectIdx(s, id, 1)

\* reflect.Indirect(reflect.ValueOf(c)).FieldByName("ID").Interface().(string)
FieldByNameID(e) == e.cluster.ID

RECURSIVE RemoveByID_Inverted(_, _)
\* mutant: the comparison is inverted, the entries with the id are the ones kept
RemoveByID_Inverted(s, id) ==
    IF s = <<>> THEN <<>>
    ELSE IF FieldByNameID(Head(s)) = id
         THEN <<Head(s)>> \o RemoveByID_Inverted(Tail(s), id)
         ELSE RemoveByID_Inverted(Tail(s), id)

RECURSIVE RemoveByID(_, _)
\* the rebuild loop of DeleteCluster: keep the entries whose ID differs
RemoveByID(s, id) ==
    IF s = <<>> THEN <<>>
    ELSE IF FieldByNameID(Head(s)) # id
         THEN <<Head(s)>> \o RemoveByID(Tail(s), id)
         ELSE RemoveByID(Tail(s), id)

\* c.SetDefaultsAndValidate(): a request without a credential id is invalid
SetDefaultsAndValidate(r) == IF r.cred = "" THEN "ValidationError" ELSE "nil"

InFlight == {c \in Calls : pc[c] \notin {"init", "done"}}

\* LaunchCluster call c has returned nil
LaunchedOK(c) == req[c].op = "launch" /\ pc[c] = "done" /\ res[c].err = "nil"

\* a goroutine may enter the facade: calls start in index order
CanBegin(c) ==
    /\ pc[c] = "init"
    /\ IF c = 1 THEN TRUE ELSE pc[c - 1] # "init"
    /\ Cardinality(InFlight) < MaxConc

\* ------------------------------------------------------------------ credentials
\* if id == "aws_env": the reserved id
EnvID == "aws_env"
CredIds == {EnvID, "key1", "key2"}
Secrets == {"s1", "s2"}

\* a credential call not yet made; seen, begun, held and stored record what
\* was true when the call was made or when it read storage
NoCredCall == [pc |-> "init", op |-> "none", id |-> "", secret |-> "",
               err |-> "pending", kind |-> "none", rid |-> "", rsecret |-> "",
               seen |-> {}, begun |-> {}, held |-> FALSE, stored |-> FALSE]

\* return nil, err / return err
CredErr(e) == [err |-> e, kind |-> "nil", rid |-> "", rsecret |-> ""]

\* ------------------------------------------------------------------ stream.Basic
\* b := &Basic{StopCh: make(chan struct{})}; b.closed.Store(false)
NewBasic == [StopCh |-> "open", closed |-> FALSE, closeOnce |-> FALSE]

\* a goroutine: s is the receiver of the method it is in, ret what its last
\* call returned, n the calls it made, closes its Close calls that returned;
\* after records that some Close had returned when the last call was made,
\* ch the state of StopCh when IsClosed returned
NoGor == [pc |-> "idle", op |-> "none", s |-> NewBasic, ret |-> "none", n |-> 0,
          closes |-> 0, after |-> FALSE, ch |-> "open"]

\* ------------------------------------------------------------------ Init
Init ==
    /\ pc = [c \in Calls |-> "init"]
    /\ req = [c \in Calls |-> NoReq]
    /\ res = [c \in Calls |-> NoRes]
    /\ ferr = [c \in Calls |-> "none"]
    /\ clusters = <<>>
    /\ clustersTbl = [id \in Ids |-> 0]
    /\ awsTbl = [id \in Ids |-> 0]
    /\ domains = {}
    /\ tx = NoTx
    /\ dbMtx = Unlocked
    /\ clustersMtx = Unlocked
    /\ eventsMtx = None
    /\ events = <<>>
    /\ subs = [s \in Subs |-> "none"]
    /\ inbox = [s \in Subs |-> <<>>]
    /\ running = {}
    /\ subsAtCall = [c \in Calls |-> {}]
    /\ credentials = {}
    /\ credTx = {}
    /\ credCall = [c \in CredCalls |-> NoCredCall]
    /\ basic = NewBasic
    /\ gor = [g \in Gos |-> NoGor]
    /\ panicked = FALSE
    /\ restarts = 0

\* ------------------------------------------------------------------ helpers
\* return from the facade call
Return(c, r) ==
    /\ pc' = [pc EXCEPT ![c] = "done"]
    /\ res' = [res EXCEPT ![c] = r]

Goto(c, l) ==
    /\ pc' = [pc EXCEPT ![c] = l]
    /\ UNCHANGED res

Live == {s \in Subs : subs[s] = "live"}

\* tx.Commit(): the transaction's inserts become rows, all at once
CommitRows(tbl, rows) ==
    [id \in Ids |-> IF id \in rows THEN tbl[id] + 1 ELSE tbl[id]]

\* mutant: no rollback, the first statement's insert stays
Rollback_Partial(ct, at, t) == [clusters |-> CommitRows(ct, t.clusters), aws |-> at]

\* tx.Rollback(): the rows of the two tables once the transaction is dropped
Rollback(ct, at, t) == [clusters |-> ct, aws |-> at]

\* ------------------------------------------------------------------ LaunchCluster
\* mutant: the error of SetDefaultsAndValidate is dropped
LaunchCluster_ErrorIgnored(c) ==
    /\ CanBegin(c)
    /\ \E r \in [op : {"launch"}, id : Ids, type : {"aws"}, cred : {"", "aws_env"},
                  after : {FALSE}] :
        /\ req' = [req EXCEPT ![c] = r]
        /\ Goto(c, "save_lock")
        /\ subsAtCall' = [subsAtCall EXCEPT ![c] = Live]
    /\ UNCHANGED <<ferr, dbVars, dbMtx, regVars, evVars, subs, running>>
    /\ UNCHANGED sideVars

\* LaunchCluster: the type switch, then launchAWSCluster up to validation
LaunchCluster(c) ==
    /\ CanBegin(c)
    /\ \E r \in {[op |-> "launch", id |-> None, type |-> "other", cred |-> "",
                   after |-> FALSE]}
              \cup [op : {"launch"}, id : Ids, type : {"aws"}, cred : {"", "aws_env"},
                    after : {FALSE}] :
        /\ req' = [req EXCEPT ![c] = r]
        /\ IF r.type # "aws"
             THEN /\ Return(c, RetErr("InvalidClusterType"))
                  /\ UNCHANGED subsAtCall
             ELSE IF SetDefaultsAndValidate(r) # "nil"
                    THEN /\ Return(c, RetErr(SetDefaultsAndValidate(r)))
                         /\ UNCHANGED subsAtCall
                    ELSE /\ Goto(c, "save_lock")
                         /\ subsAtCall' = [subsAtCall EXCEPT ![c] = Live]
    /\ UNCHANGED <<ferr, dbVars, dbMtx, regVars, evVars, subs, running>>
    /\ UNCHANGED sideVars

\* saveAWSCluster: i.dbMtx.Lock()
SaveLock(c) ==
    /\ pc[c] = "save_lock"
    /\ CanLock(dbMtx)
    /\ dbMtx' = Lock(dbMtx, c)
    /\ Goto(c, "save_begin")
    /\ UNCHANGED <<req, ferr, dbVars, regVars, evVars, subs, running, subsAtCall>>
    /\ UNCHANGED sideVars

\* saveAWSCluster: ql.Marshal, ql.Compile, i.db.Begin(); an error returns
\* through the deferred Unlock
SaveBegin(c) ==
    /\ pc[c] = "save_begin"
    /\ \E out \in {"ok", "MarshalError", "BeginError"} :
        IF out = "ok"
          THEN /\ tx' = [open |-> TRUE, clusters |-> {}, aws |-> {}]
               /\ Goto(c, "save_exec")
               /\ UNCHANGED dbMtx
          ELSE /\ Return(c, RetErr(out))
               /\ dbMtx' = Unlock(dbMtx)
               /\ UNCHANGED tx
    /\ UNCHANGED <<req, ferr, clustersTbl, awsTbl, domains, regVars, evVars, subs,
                   running, subsAtCall>>
    /\ UNCHANGED sideVars

\* mutant: launchAWSCluster drops the error of saveAWSCluster and goes on
SaveExecClusters_ErrorIgnored(c) ==
    /\ pc[c] = "save_exec"
    /\ \E out \in {"ok", "ExecErrorClusters"} :
        IF out = "ok"
          THEN /\ tx' = [tx EXCEPT !.clusters = @ \cup {req[c].id}]
               /\ Goto(c, "save_exec2")
               /\ UNCHANGED <<dbMtx, clustersTbl, awsTbl>>
          ELSE /\ clustersTbl' = Rollback(clustersTbl, awsTbl, tx).clusters
               /\ awsTbl' = Rollback(clustersTbl, awsTbl, tx).aws
               /\ tx' = NoTx
               /\ Goto(c, "reg_lock")
               /\ dbMtx' = Unlock(dbMtx)
    /\ UNCHANGED <<req, ferr, domains, regVars, evVars, subs, running, subsAtCall>>
    /\ UNCHANGED sideVars

\* tx.Exec, first statement: INSERT INTO clusters; on error tx.Rollback()
SaveExecClusters(c) ==
    /\ pc[c] = "save_exec"
    /\ \E out \in {"ok", "ExecErrorClusters"} :
        IF out = "ok"
          THEN /\ tx' = [tx EXCEPT !.clusters = @ \cup {req[c].id}]
               /\ Goto(c, "save_exec2")
               /\ UNCHANGED <<dbMtx, clustersTbl, awsTbl>>
          ELSE /\ clustersTbl' = Rollback(clustersTbl, awsTbl, tx).clusters
               /\ awsTbl' = Rollback(clustersTbl, awsTbl, tx).aws
               /\ tx' = NoTx
               /\ Return(c, RetErr(out))
               /\ dbMtx' = Unlock(dbMtx)
    /\ UNCHANGED <<req, ferr, domains, regVars, evVars, subs, running, subsAtCall>>
    /\ UNCHANGED sideVars

\* tx.Exec, second statement: INSERT INTO aws_clusters; on error tx.Rollback()
SaveExecAWS(c) ==
    /\ pc[c] = "save_exec2"
    /\ \E out \in {"ok", "ExecErrorAWS"} :
        IF out = "ok"
          THEN /\ tx' = [tx EXCEPT !.aws = @ \cup {req[c].id}]
               /\ Goto(c, "save_commit")
               /\ UNCHANGED <<dbMtx, clustersTbl, awsTbl>>
          ELSE /\ clustersTbl' = Rollback(clustersTbl, awsTbl, tx).clusters
               /\ awsTbl' = Rollback(clustersTbl, awsTbl, tx).aws
               /\ tx' = NoTx
               /\ Return(c, RetErr(out))
               /\ dbMtx' = Unlock(dbMtx)
    /\ UNCHANGED <<req, ferr, domains, regVars, evVars, subs, running, subsAtCall>>
    /\ UNCHANGED sideVars

\* mutant: the error of tx.Commit() is dropped and the launch goes on
SaveCommit_ErrorIgnored(c) ==
    /\ pc[c] = "save_commit"
    /\ \E out \in {"ok", "CommitError"} :
        IF out = "ok"
          THEN /\ clustersTbl' = CommitRows(clustersTbl, tx.clusters)
               /\ awsTbl' = CommitRows(awsTbl, tx.aws)
          ELSE UNCHANGED <<clustersTbl, awsTbl>>
    /\ Goto(c, "reg_lock")
    /\ tx' = NoTx
    /\ dbMtx' = Unlock(dbMtx)
    /\ UNCHANGED <<req, ferr, domains, regVars, evVars, subs, running, subsAtCall>>
    /\ UNCHANGED sideVars

\* return tx.Commit(), through the deferred Unlock; launchAWSCluster
\* returns the error or goes on to register
SaveCommit(c) ==
    /\ pc[c] = "save_commit"
    /\ \E out \in {"ok", "CommitError"} :
        IF out = "ok"
          THEN /\ clustersTbl' = CommitRows(clustersTbl, tx.clusters)
               /\ awsTbl' = CommitRows(awsTbl, tx.aws)
               /\ Goto(c, "reg_lock")
          ELSE /\ Return(c, RetErr(out))
               /\ UNCHANGED <<clustersTbl, awsTbl>>
    /\ tx' = NoTx
    /\ dbMtx' = Unlock(dbMtx)
    /\ UNCHANGED <<req, ferr, domains, regVars, evVars, subs, running, subsAtCall>>
    /\ UNCHANGED sideVars

\* launchAWSCluster: i.clustersMtx.Lock()
RegLock(c) ==
    /\ pc[c] = "reg_lock"
    /\ CanLock(clustersMtx)
    /\ clustersMtx' = Lock(clustersMtx, c)
    /\ Goto(c, "reg_append")
    /\ UNCHANGED <<req, ferr, dbVars, dbMtx, clusters, evVars, subs, running, subsAtCall>>
    /\ UNCHANGED sideVars

\* mutant: the result of append is not stored
Register_NotStored(s, c, id) == s

\* mutant: the new slice holds only the new cluster
Register_Overwrite(s, c, id) == <<AWSCluster(c, id)>>

\* the registry after i.clusters = append(i.clusters, c)
Register(s, c, id) == Append(s, AWSCluster(c, id))

\* mutant: c.Run() is called before SendEvent
RegAppend_RunFirst(c) ==
    /\ pc[c] = "reg_append"
    /\ clusters' = Register(clusters, c, req[c].id)
    /\ clustersMtx' = Unlock(clustersMtx)
    /\ running' = running \cup {c}
    /\ Goto(c, "ev_lock")
    /\ UNCHANGED <<req, ferr, dbVars, dbMtx, evVars, subs, subsAtCall>>
    /\ UNCHANGED sideVars

\* launchAWSCluster: append, i.clustersMtx.Unlock()
RegAppend(c) ==
    /\ pc[c] = "reg_append"
    /\ clusters' = Register(clusters, c, req[c].id)
    /\ clustersMtx' = Unlock(clustersMtx)
    /\ Goto(c, "ev_lock")
    /\ UNCHANGED <<req, ferr, dbVars, dbMtx, evVars, subs, running, subsAtCall>>
    /\ UNCHANGED sideVars

\* ------------------------------------------------------------------ SendEvent
\* the event a call sends: new_cluster from launchAWSCluster,
\* cluster_deleted from DeleteCluster
EventOf(c) ==
    IF req[c].op = "launch"
      THEN Event("new_cluster", c, req[c].id)
      ELSE Event("cluster_deleted", None, req[c].id)

\* SendEvent: i.eventsMtx.Lock()
EvLock(c) ==
    /\ pc[c] = "ev_lock"
    /\ eventsMtx = None
    /\ eventsMtx' = c
    /\ Goto(c, "ev_send")
    /\ UNCHANGED <<req, ferr, dbVars, dbMtx, regVars, events, inbox, subs, running,
                   subsAtCall>>
    /\ UNCHANGED sideVars

\* SendEvent: append to the log, hand the event to every live subscription,
\* unlock; then launchAWSCluster goes on to c.Run(), DeleteCluster returns nil
EvSend(c) ==
    /\ pc[c] = "ev_send"
    /\ events' = Append(events, EventOf(c))
    /\ inbox' = [s \in Subs |->
                    IF s \in Live THEN Append(inbox[s], EventOf(c)) ELSE inbox[s]]
    /\ eventsMtx' = None
    /\ IF req[c].op = "launch" THEN Goto(c, "run") ELSE Return(c, RetNil)
    /\ UNCHANGED <<req, ferr, dbVars, dbMtx, regVars, subs, running, subsAtCall>>
    /\ UNCHANGED sideVars

\* launchAWSCluster: c.Run() starts provisioning in the background; return nil
LaunchRun(c) ==
    /\ pc[c] = "run"
    /\ running' = running \cup {c}
    /\ Return(c, RetNil)
    /\ UNCHANGED <<req, ferr, dbVars, dbMtx, regVars, evVars, subs, subsAtCall>>
    /\ UNCHANGED sideVars

\* Subscribe: a new delivery sink
Subscribe(s) ==
    /\ subs[s] = "none"
    /\ subs' = [subs EXCEPT ![s] = "live"]
    /\ UNCHANGED <<pc, req, res, ferr, dbVars, dbMtx, regVars, evVars, running,
                   subsAtCall>>
    /\ UNCHANGED sideVars

\* Unsubscribe: the sink is retired and no longer observed
Unsubscribe(s) ==
    /\ subs[s] = "live"
    /\ subs' = [subs EXCEPT ![s] = "closed"]
    /\ inbox' = [inbox EXCEPT ![s] = <<>>]
    /\ UNCHANGED <<pc, req, res, ferr, dbVars, dbMtx, regVars, eventsMtx, events,
                   running, subsAtCall>>
    /\ UNCHANGED sideVars

\* ------------------------------------------------------------------ FindCluster
\* FindCluster returns r: to the caller of the facade, or to DeleteCluster,
\* which keeps only the error
FindReturn(c, r) ==
    IF req[c].op = "find"
      THEN /\ Return(c, r)
           /\ UNCHANGED ferr
      ELSE /\ Goto(c, "del_unlock")
           /\ ferr' = [ferr EXCEPT ![c] = r.err]

\* the facade call FindCluster(id); req.after records whether a LaunchCluster
\* of id had already returned nil when the call began
FindCluster(c) ==
    /\ CanBegin(c)
    /\ \E id \in Ids :
          req' = [req EXCEPT ![c] =
                    [NoReq EXCEPT !.op = "find", !.id = id,
                                  !.after = \E l \in Calls : LaunchedOK(l) /\ req[l].id = id]]
    /\ Goto(c, "find_rlock")
    /\ UNCHANGED <<ferr, dbVars, dbMtx, regVars, evVars, subs, running, subsAtCall>>
    /\ UNCHANGED sideVars

\* FindCluster: i.clustersMtx.RLock()
FindRLock(c) ==
    /\ pc[c] = "find_rlock"
    /\ CanRLock(clustersMtx)
    /\ clustersMtx' = RLock(clustersMtx, c)
    /\ Goto(c, "find_scan")
    /\ UNCHANGED <<req, ferr, dbVars, dbMtx, clusters, evVars, subs, running, subsAtCall>>
    /\ UNCHANGED sideVars

\* return cluster.cluster, nil for the registry entry at index k
RegistryHit(s, k) ==
    [err |-> "nil", kind |-> "registry", ptr |-> s[k].ptr, id |-> s[k].cluster.ID,
     dom |-> FALSE]

\* FindCluster: the scan of i.clusters and i.clustersMtx.RUnlock(); a hit
\* returns the registered cluster, a miss goes on to storage
FindScan(c) ==
    /\ pc[c] = "find_scan"
    /\ clustersMtx' = RUnlock(clustersMtx, c)
    /\ IF RegistryLookup(clusters, req[c].id) # 0
         THEN FindReturn(c, RegistryHit(clusters, RegistryLookup(clusters, req[c].id)))
         ELSE /\ Goto(c, "find_db_rlock")
              /\ UNCHANGED ferr
    /\ UNCHANGED <<req, dbVars, dbMtx, clusters, evVars, subs, running, subsAtCall>>
    /\ UNCHANGED sideVars

\* FindCluster: i.dbMtx.RLock()
FindDbRLock(c) ==
    /\ pc[c] = "find_db_rlock"
    /\ CanRLock(dbMtx)
    /\ dbMtx' = RLock(dbMtx, c)
    /\ Goto(c, "find_query")
    /\ UNCHANGED <<req, ferr, dbVars, regVars, evVars, subs, running, subsAtCall>>
    /\ UNCHANGED sideVars

\* the error of QueryRow(... FROM clusters WHERE ID == $1 LIMIT 1).Scan
ScanClusterErr(ct, id, io) ==
    IF io = "fail" THEN "StorageError"
    ELSE IF ct[id] = 0 THEN "ErrNoRows"
    ELSE "nil"

\* the error of QueryRow(... FROM domains WHERE ClusterID == $1 LIMIT 1).Scan
ScanDomainErr(dm, id, io) ==
    IF io = "fail" THEN "StorageError"
    ELSE IF id \notin dm THEN "ErrNoRows"
    ELSE "nil"

\* what FindCluster returns from storage: the two QueryRow calls
QueryCluster(ct, dm, id, io1, io2) ==
    IF ScanClusterErr(ct, id, io1) # "nil"
      THEN RetErr(ScanClusterErr(ct, id, io1))
    ELSE IF ScanDomainErr(dm, id, io2) \notin {"nil", "ErrNoRows"}
      THEN RetErr(ScanDomainErr(dm, id, io2))
    ELSE [err |-> "nil", kind |-> "storage", ptr |-> None, id |-> id,
          dom |-> ScanDomainErr(dm, id, io2) = "nil"]

\* FindCluster: the storage reads, returning through the deferred RUnlock
FindQuery(c) ==
    /\ pc[c] = "find_query"
    /\ dbMtx' = RUnlock(dbMtx, c)
    /\ \E io1, io2 \in {"ok", "fail"} :
          FindReturn(c, QueryCluster(clustersTbl, domains, req[c].id, io1, io2))
    /\ UNCHANGED <<req, dbVars, regVars, evVars, subs, running, subsAtCall>>
    /\ UNCHANGED sideVars

\* ------------------------------------------------------------------ DeleteCluster
\* the facade call DeleteCluster(id)
DeleteCluster(c) ==
    /\ CanBegin(c)
    /\ \E id \in Ids : req' = [req EXCEPT ![c] = [NoReq EXCEPT !.op = "delete", !.id = id]]
    /\ Goto(c, "del_lock")
    /\ UNCHANGED <<ferr, dbVars, dbMtx, regVars, evVars, subs, running, subsAtCall>>
    /\ UNCHANGED sideVars

\* DeleteCluster: i.dbMtx.Lock(), then the call of i.FindCluster(id)
DelLock(c) ==
    /\ pc[c] = "del_lock"
    /\ CanLock(dbMtx)
    /\ dbMtx' = Lock(dbMtx, c)
    /\ Goto(c, "find_rlock")
    /\ UNCHANGED <<req, ferr, dbVars, regVars, evVars, subs, running, subsAtCall>>
    /\ UNCHANGED sideVars

\* DeleteCluster: i.dbMtx.Unlock(); if err != nil return err
DelUnlock(c) ==
    /\ pc[c] = "del_unlock"
    /\ dbMtx' = Unlock(dbMtx)
    /\ IF ferr[c] # "nil" THEN Return(c, RetErr(ferr[c])) ELSE Goto(c, "del_reg_lock")
    /\ UNCHANGED <<req, ferr, dbVars, regVars, evVars, subs, running, subsAtCall>>
    /\ UNCHANGED sideVars

\* DeleteCluster: i.clustersMtx.Lock()
DelRegLock(c) ==
    /\ pc[c] = "del_reg_lock"
    /\ CanLock(clustersMtx)
    /\ clustersMtx' = Lock(clustersMtx, c)
    /\ Goto(c, "del_remove")
    /\ UNCHANGED <<req, ferr, dbVars, dbMtx, clusters, evVars, subs, running, subsAtCall>>
    /\ UNCHANGED sideVars

\* mutant: the delete also purges the id's rows
DelRemove_PurgeRows(c) ==
    /\ pc[c] = "del_remove"
    /\ clusters' = RemoveByID(clusters, req[c].id)
    /\ clustersMtx' = Unlock(clustersMtx)
    /\ clustersTbl' = [clustersTbl EXCEPT ![req[c].id] = 0]
    /\ awsTbl' = [awsTbl EXCEPT ![req[c].id] = 0]
    /\ Goto(c, "ev_lock")
    /\ UNCHANGED <<req, ferr, domains, tx, dbMtx, evVars, subs, running, subsAtCall>>
    /\ UNCHANGED sideVars

\* DeleteCluster: rebuild i.clusters without id, i.clustersMtx.Unlock();
\* the rows in storage stay (TODO(jvatic): remove from database ...)
DelRemove(c) ==
    /\ pc[c] = "del_remove"
    /\ clusters' = RemoveByID(clusters, req[c].id)
    /\ clustersMtx' = Unlock(clustersMtx)
    /\ Goto(c, "ev_lock")
    /\ UNCHANGED <<req, ferr, dbVars, dbMtx, evVars, subs, running, subsAtCall>>
    /\ UNCHANGED sideVars

\* ------------------------------------------------------------------ provisioning
\* The background task started by Run() attaches the cluster's Domain: one
\* row in table domains, written once, under the persistence lock
AttachDomain(c) ==
    /\ c \in running
    /\ req[c].id \notin domains
    /\ CanLock(dbMtx)
    /\ domains' = domains \cup {req[c].id}
    /\ UNCHANGED <<pc, req, res, ferr, clustersTbl, awsTbl, tx, dbMtx, regVars, evVars,
                   subs, running, subsAtCall>>
    /\ UNCHANGED sideVars

\* ------------------------------------------------------------------ specification
Next ==
    \/ \E c \in Calls : LaunchCluster(c)
    \/ \E c \in Calls : SaveLock(c)
    \/ \E c \in Calls : SaveBegin(c)
    \/ \E c \in Calls : SaveExecClusters(c)
    \/ \E c \in Calls : SaveExecAWS(c)
    \/ \E c \in Calls : SaveCommit(c)
    \/ \E c \in Calls : RegLock(c)
    \/ \E c \in Calls : RegAppend(c)
    \/ \E c \in Calls : EvLock(c)
    \/ \E c \in Calls : EvSend(c)
    \/ \E c \in Calls : LaunchRun(c)
    \/ \E c \in Calls : FindCluster(c)
    \/ \E c \in Calls : FindRLock(c)
    \/ \E c \in Calls : FindScan(c)
    \/ \E c \in Calls : FindDbRLock(c)
    \/ \E c \in Calls : FindQuery(c)
    \/ \E c \in Calls : DeleteCluster(c)
    \/ \E c \in Calls : DelLock(c)
    \/ \E c \in Calls : DelUnlock(c)
    \/ \E c \in Calls : DelRegLock(c)
    \/ \E c \in Calls : DelRemove(c)
    \/ \E c \in Calls : AttachDomain(c)
    \/ \E s \in Subs : Subscribe(s)
    \/ \E s \in Subs : Unsubscribe(s)

Spec == Init /\ [][Next]_vars

\* ------------------------------------------------------------------ credentials calls
\* everything of the Installer but its persistence lock and credentials table
clusterVars == <<pc, req, res, ferr, clusters, clustersTbl, awsTbl, domains, tx,
                 clustersMtx, eventsMtx, events, subs, inbox, running, subsAtCall>>

CredReturn(c, r) ==
    credCall' = [credCall EXCEPT ![c].pc = "done", ![c].err = r.err, ![c].kind = r.kind,
                                 ![c].rid = r.rid, ![c].rsecret = r.rsecret]

CredGoto(c, l) == credCall' = [credCall EXCEPT ![c].pc = l]

\* a goroutine may call the facade: calls start in index order
CanBeginCred(c) ==
    /\ credCall[c].pc = "init"
    /\ IF c = 1 THEN TRUE ELSE credCall[c - 1].pc # "init"

\* secrets of the SaveAWSCredentials(id, _) calls that have returned nil
SavedSecrets(id) ==
    {credCall[d].secret : d \in {e \in CredCalls : /\ credCall[e].op = "save"
                                                   /\ credCall[e].id = id
                                                   /\ credCall[e].pc = "done"
                                                   /\ credCall[e].err = "nil"}}

\* secrets of the SaveAWSCredentials(id, _) calls made so far, returned or not
BegunSecrets(id) ==
    {credCall[d].secret : d \in {e \in CredCalls : /\ credCall[e].op = "save"
                                                   /\ credCall[e].id = id}}

\* SaveAWSCredentials(id, secret): the call is made
SaveAWSCredentials(c) ==
    /\ CanBeginCred(c)
    /\ \E id \in CredIds, secret \in Secrets :
        credCall' = [credCall EXCEPT ![c].pc = "lock", ![c].op = "save",
                                     ![c].id = id, ![c].secret = secret]
    /\ UNCHANGED <<credentials, credTx, dbMtx, clusterVars, streamVars, restarts>>

\* i.dbMtx.Lock(); defer i.dbMtx.Unlock()
CredLock(c) ==
    /\ credCall[c].pc = "lock"
    /\ CanLock(dbMtx)
    /\ dbMtx' = Lock(dbMtx, c)
    /\ CredGoto(c, "begin")
    /\ UNCHANGED <<credentials, credTx, clusterVars, streamVars, restarts>>

\* tx, err := i.db.Begin(); if err != nil { return err }
CredBegin(c) ==
    /\ credCall[c].pc = "begin"
    /\ \E out \in {"ok", "BeginError"} :
        IF out = "ok"
          THEN /\ CredGoto(c, "exec")
               /\ UNCHANGED dbMtx
          ELSE /\ CredReturn(c, CredErr(out))
               /\ dbMtx' = Unlock(dbMtx)
    /\ UNCHANGED <<credentials, credTx, clusterVars, streamVars, restarts>>

\* tx.Exec(INSERT INTO credentials (ID, Secret) VALUES ($1, $2)); on error
\* tx.Rollback() and return err
CredExec(c) ==
    /\ credCall[c].pc = "exec"
    /\ \E out \in {"ok", "ExecError"} :
        IF out = "ok"
          THEN /\ credTx' = credTx \cup {[ID |-> credCall[c].id,
                                           Secret |-> credCall[c].secret]}
               /\ CredGoto(c, "commit")
               /\ UNCHANGED dbMtx
          ELSE /\ credTx' = {}
               /\ CredReturn(c, CredErr(out))
               /\ dbMtx' = Unlock(dbMtx)
    /\ UNCHANGED <<credentials, clusterVars, streamVars, restarts>>

\* return tx.Commit()
CredCommit(c) ==
    /\ credCall[c].pc = "commit"
    /\ \E out \in {"ok", "CommitError"} :
        IF out = "ok"
          THEN /\ credentials' = credentials \cup credTx
               /\ CredReturn(c, CredErr("nil"))
          ELSE /\ UNCHANGED credentials
               /\ CredReturn(c, CredErr(out))
    /\ credTx' = {}
    /\ dbMtx' = Unlock(dbMtx)
    /\ UNCHANGED <<clusterVars, streamVars, restarts>>

\* mutant: no reserved id, every id is read from storage
FindAWSCredentials_NoReserved(c) ==
    /\ CanBeginCred(c)
    /\ \E id \in CredIds :
        credCall' = [credCall EXCEPT ![c].pc = "rlock", ![c].op = "find", ![c].id = id,
                                     ![c].seen = SavedSecrets(id),
                                     ![c].held = (dbMtx.w # None),
                                     ![c].stored = (\E r \in credentials : r.ID = id)]
    /\ UNCHANGED <<credentials, credTx, dbMtx, clusterVars, streamVars, restarts>>

\* FindAWSCredentials(id): if id == "aws_env" { return aws.EnvCreds() }
FindAWSCredentials(c) ==
    /\ CanBeginCred(c)
    /\ \E id \in CredIds :
        LET call == [credCall[c] EXCEPT !.op = "find", !.id = id,
                                        !.seen = SavedSecrets(id),
                                        !.held = (dbMtx.w # None),
                                        !.stored = (\E r \in credentials : r.ID = id)]
        IN  IF id = EnvID
              THEN \E e \in {"nil", "EnvError"} :
                     credCall' = [credCall EXCEPT ![c] =
                         [call EXCEPT !.pc = "done", !.err = e, !.kind = "env"]]
              ELSE credCall' = [credCall EXCEPT ![c] = [call EXCEPT !.pc = "rlock"]]
    /\ UNCHANGED <<credentials, credTx, dbMtx, clusterVars, streamVars, restarts>>

\* i.dbMtx.RLock(); defer i.dbMtx.RUnlock()
CredRLock(c) ==
    /\ credCall[c].pc = "rlock"
    /\ CanRLock(dbMtx)
    /\ dbMtx' = RLock(dbMtx, c)
    /\ CredGoto(c, "query")
    /\ UNCHANGED <<credentials, credTx, clusterVars, streamVars, restarts>>

\* mutant: the WHERE clause is dropped
CredRows_AnyID(tbl, id) == tbl

\* SELECT Secret FROM credentials WHERE id == $1: the rows that match
CredRows(tbl, id) == {r \in tbl : r.ID = id}

\* QueryRow(... LIMIT 1).Scan(&secret): any one matching row, sql.ErrNoRows
\* when there is none, or the error of the read; then aws.Creds(id, secret, "")
CredQuery(c) ==
    /\ credCall[c].pc = "query"
    /\ LET rows == CredRows(credentials, credCall[c].id)
       IN  \/ /\ rows = {}
              /\ credCall' = [credCall EXCEPT ![c].pc = "done", ![c].err = "ErrNoRows",
                                  ![c].kind = "nil",
                                  ![c].begun = BegunSecrets(credCall[c].id)]
           \/ \E r \in rows :
                credCall' = [credCall EXCEPT ![c].pc = "done", ![c].err = "nil",
                                  ![c].kind = "stored", ![c].rid = credCall[c].id,
                                  ![c].rsecret = r.Secret,
                                  ![c].begun = BegunSecrets(credCall[c].id)]
           \/ credCall' = [credCall EXCEPT ![c].pc = "done", ![c].err = "ScanError",
                                  ![c].kind = "nil",
                                  ![c].begun = BegunSecrets(credCall[c].id)]
    /\ dbMtx' = RUnlock(dbMtx, c)
    /\ UNCHANGED <<credentials, credTx, clusterVars, streamVars, restarts>>

NextCred ==
    \/ \E c \in CredCalls : SaveAWSCredentials(c)
    \/ \E c \in CredCalls : CredLock(c)
    \/ \E c \in CredCalls : CredBegin(c)
    \/ \E c \in CredCalls : CredExec(c)
    \/ \E c \in CredCalls : CredCommit(c)
    \/ \E c \in CredCalls : FindAWSCredentials(c)
    \/ \E c \in CredCalls : CredRLock(c)
    \/ \E c \in CredCalls : CredQuery(c)

SpecCred == Init /\ [][NextCred]_vars

\* ------------------------------------------------------------------ restart
\* The process stops (the calls in flight end there, an open transaction
\* is never committed, the background tasks are gone) and NewInstaller runs
\* again over the same storage: events, subscriptions and clusters are
\* made empty, the mutexes are new, openDB opens the handle.
Restart ==
    /\ restarts < MaxRestarts
    /\ restarts' = restarts + 1
    /\ pc' = [c \in Calls |-> IF pc[c] = "init" THEN "init" ELSE "done"]
    /\ res' = [c \in Calls |-> IF pc[c] \in {"init", "done"} THEN res[c] ELSE RetErr("exit")]
    /\ clusters' = <<>>
    /\ events' = <<>>
    /\ subs' = [s \in Subs |-> "none"]
    /\ inbox' = [s \in Subs |-> <<>>]
    /\ dbMtx' = Unlocked
    /\ clustersMtx' = Unlocked
    /\ eventsMtx' = None
    /\ tx' = NoTx
    /\ running' = {}
    /\ UNCHANGED <<req, ferr, clustersTbl, awsTbl, domains, subsAtCall, credVars,
                   streamVars>>

NextRestart ==
    \/ \E c \in Calls : LaunchCluster(c)
    \/ \E c \in Calls : SaveLock(c)
    \/ \E c \in Calls : SaveBegin(c)
    \/ \E c \in Calls : SaveExecClusters(c)
    \/ \E c \in Calls : SaveExecAWS(c)
    \/ \E c \in Calls : SaveCommit(c)
    \/ \E c \in Calls : RegLock(c)
    \/ \E c \in Calls : RegAppend(c)
    \/ \E c \in Calls : EvLock(c)
    \/ \E c \in Calls : EvSend(c)
    \/ \E c \in Calls : LaunchRun(c)
    \/ \E c \in Calls : FindCluster(c)
    \/ \E c \in Calls : FindRLock(c)
    \/ \E c \in Calls : FindScan(c)
    \/ \E c \in Calls : FindDbRLock(c)
    \/ \E c \in Calls : FindQuery(c)
    \/ Restart

SpecRestart == Init /\ [][NextRestart]_vars

\* ------------------------------------------------------------------ stream.Basic calls
otherVars == <<clusterVars, dbMtx, credVars, restarts>>

\* some Close call on the stream has returned
CloseReturned == \E g \in Gos : gor[g].closes > 0

CanCall(g) == gor[g].pc = "idle" /\ gor[g].n < MaxOps /\ ~panicked

\* func (s Basic) Close(): the call copies *b into the receiver s
Close(g) ==
    /\ CanCall(g)
    /\ gor' = [gor EXCEPT ![g].pc = "once", ![g].op = "close", ![g].s = basic,
                          ![g].ret = "none", ![g].n = @ + 1,
                          ![g].after = CloseReturned]
    /\ UNCHANGED <<basic, panicked, otherVars>>

\* s.closeOnce.Do(f): f runs unless the receiver's Once is done
CloseOnce(g) ==
    /\ gor[g].pc = "once" /\ ~panicked
    /\ gor' = [gor EXCEPT ![g].pc = IF gor[g].s.closeOnce THEN "ret" ELSE "store"]
    /\ UNCHANGED <<basic, panicked, otherVars>>

\* s.closed.Store(true): stores into the receiver
CloseStore(g) ==
    /\ gor[g].pc = "store" /\ ~panicked
    /\ gor' = [gor EXCEPT ![g].pc = "closech", ![g].s.closed = TRUE]
    /\ UNCHANGED <<basic, panicked, otherVars>>

\* close(s.StopCh): the channel is the one b.StopCh refers to; closing a
\* closed channel panics.  Then Do marks the receiver's Once as done.
CloseStopCh(g) ==
    /\ gor[g].pc = "closech" /\ ~panicked
    /\ IF basic.StopCh = "closed"
         THEN /\ panicked' = TRUE
              /\ gor' = [gor EXCEPT ![g].pc = "panic"]
              /\ UNCHANGED basic
         ELSE /\ basic' = [basic EXCEPT !.StopCh = "closed"]
              /\ gor' = [gor EXCEPT ![g].pc = "ret", ![g].s.StopCh = "closed",
                                    ![g].s.closeOnce = TRUE]
              /\ UNCHANGED panicked
    /\ UNCHANGED otherVars

\* return nil
CloseReturn(g) ==
    /\ gor[g].pc = "ret" /\ ~panicked
    /\ gor' = [gor EXCEPT ![g].pc = "idle", ![g].ret = "nil", ![g].closes = @ + 1]
    /\ UNCHANGED <<basic, panicked, otherVars>>

\* func (s Basic) IsClosed(): the call copies *b into the receiver s
IsClosed(g) ==
    /\ CanCall(g)
    /\ gor' = [gor EXCEPT ![g].pc = "load", ![g].op = "isclosed", ![g].s = basic,
                          ![g].ret = "none", ![g].n = @ + 1,
                          ![g].after = CloseReturned]
    /\ UNCHANGED <<basic, panicked, otherVars>>

\* return s.closed.Load().(bool)
IsClosedLoad(g) ==
    /\ gor[g].pc = "load" /\ ~panicked
    /\ gor' = [gor EXCEPT ![g].pc = "idle",
                          ![g].ret = IF gor[g].s.closed THEN "true" ELSE "false",
                          ![g].ch = basic.StopCh]
    /\ UNCHANGED <<basic, panicked, otherVars>>

NextStream ==
    \/ \E g \in Gos : Close(g)
    \/ \E g \in Gos : CloseOnce(g)
    \/ \E g \in Gos : CloseStore(g)
    \/ \E g \in Gos : CloseStopCh(g)
    \/ \E g \in Gos : CloseReturn(g)
    \/ \E g \in Gos : IsClosed(g)
    \/ \E g \in Gos : IsClosedLoad(g)

SpecStream == Init /\ [][NextStream]_vars

\* ------------------------------------------------------------------ derived facts
\* launch c has passed its commit / its append to the registry
Committed(c) ==
    /\ req[c].op = "launch"
    /\ \/ pc[c] \in {"reg_lock", "reg_append", "ev_lock", "ev_send", "run"}
       \/ LaunchedOK(c)

Registered(c) ==
    /\ req[c].op = "launch"
    /\ \/ pc[c] \in {"ev_lock", "ev_send", "run"}
       \/ LaunchedOK(c)

\* DeleteCluster call d has rebuilt the registry without its id
Removed(d) ==
    /\ req[d].op = "delete"
    /\ \/ pc[d] \in {"ev_lock", "ev_send"}
       \/ pc[d] = "done" /\ res[d].err = "nil"

DelRemoved(id) == \E d \in Calls : Removed(d) /\ req[d].id = id

\* the registry indexes holding launch c's *AWSCluster
EntriesOf(c) == {k \in 1..Len(clusters) : clusters[k].ptr = c}

\* the registry indexes holding a cluster with this id
EntriesWithID(id) == {k \in 1..Len(clusters) : clusters[k].ClusterID = id}

NewClusterEvent(c) == Event("new_cluster", c, req[c].id)

InSeq(e, s) == \E k \in 1..Len(s) : s[k] = e

\* the steps call c takes once it has begun
CallStep(c) ==
    \/ SaveLock(c) \/ SaveBegin(c) \/ SaveExecClusters(c) \/ SaveExecAWS(c)
    \/ SaveCommit(c) \/ RegLock(c) \/ RegAppend(c) \/ EvLock(c) \/ EvSend(c)
    \/ LaunchRun(c) \/ FindRLock(c) \/ FindScan(c) \/ FindDbRLock(c)
    \/ FindQuery(c) \/ DelLock(c) \/ DelUnlock(c) \/ DelRegLock(c) \/ DelRemove(c)

\* ------------------------------------------------------------------ C1
\* C1: once LaunchCluster has returned nil for a cluster (and no DeleteCluster
\* has removed its id), the registry scan of FindCluster hits that id and
\* returns a cluster with that id and no error; every FindCluster(id) call
\* that began after the launch returned has returned that way; and every
\* subscriber that was live when the launch began, and is still live, has
\* the launch's new_cluster event in its inbox (and the log holds it).
C1_LaunchThenFind ==
    \A c \in Calls : LaunchedOK(c) =>
        /\ InSeq(NewClusterEvent(c), events)
        /\ \A s \in subsAtCall[c] :
              subs[s] = "live" => InSeq(NewClusterEvent(c), inbox[s])
        /\ ~DelRemoved(req[c].id) =>
              /\ RegistryLookup(clusters, req[c].id) # 0
              /\ RegistryHit(clusters, RegistryLookup(clusters, req[c].id)).err = "nil"
              /\ RegistryHit(clusters, RegistryLookup(clusters, req[c].id)).id = req[c].id
              /\ \A f \in Calls :
                    (/\ req[f].op = "find" /\ req[f].id = req[c].id
                     /\ req[f].after /\ pc[f] = "done")
                    => /\ res[f].err = "nil"
                       /\ res[f].kind = "registry"
                       /\ res[f].id = req[c].id

\* a launch returned nil with a subscriber live since before it began, and a
\* later FindCluster of the id returned the launched cluster
C1_Witness ==
    \E c, f \in Calls :
        /\ LaunchedOK(c)
        /\ subsAtCall[c] # {}
        /\ \A s \in subsAtCall[c] : subs[s] = "live"
        /\ req[f].op = "find" /\ req[f].id = req[c].id /\ req[f].after
        /\ pc[f] = "done" /\ res[f].kind = "registry" /\ res[f].ptr = c

\* ------------------------------------------------------------------ C2
\* C2: write-before-register: every registry entry belongs to a launch whose
\* transaction has committed, with rows for its id in both tables; a launch
\* whose save failed or has not committed has no registry entry.
C2_WriteBeforeRegister ==
    /\ \A k \in 1..Len(clusters) :
          /\ Committed(clusters[k].ptr)
          /\ req[clusters[k].ptr].id = clusters[k].ClusterID
          /\ clustersTbl[clusters[k].ClusterID] > 0
          /\ awsTbl[clusters[k].ClusterID] > 0
    /\ \A c \in Calls :
          (req[c].op = "launch" /\ ~Committed(c)) => EntriesOf(c) = {}

\* the registry holds a cluster while another launch's save has failed
C2_Witness ==
    /\ Len(clusters) > 0
    /\ \E c \in Calls :
          /\ req[c].op = "launch" /\ pc[c] = "done"
          /\ res[c].err \in {"BeginError", "ExecErrorClusters", "ExecErrorAWS", "CommitError"}

\* ------------------------------------------------------------------ C3
\* launch c is an AWS request that SetDefaultsAndValidate rejects
Invalid(c) ==
    req[c].op = "launch" /\ req[c].type = "aws" /\ SetDefaultsAndValidate(req[c]) # "nil"

\* C3: a launch request that fails validation returns the validation error
\* in the step that made the call, and that step leaves storage, the
\* registry, the event log, the inboxes and the started tasks as they were;
\* the request never has a registry entry, an event or a running task.
C3_ValidationFails ==
    /\ [](\A c \in Calls : Invalid(c) =>
            /\ pc[c] = "done"
            /\ res[c] = RetErr("ValidationError")
            /\ EntriesOf(c) = {}
            /\ c \notin running
            /\ \A k \in 1..Len(events) : events[k].Cluster # c)
    /\ [][\A c \in Calls :
            (pc[c] = "init" /\ pc'[c] = "done" /\ res'[c].err = "ValidationError")
            => UNCHANGED <<clusters, clustersTbl, awsTbl, domains, tx, events, inbox,
                           running>>]_vars

\* a request without credential id was refused while the registry held a cluster
C3_Witness ==
    \E c \in Calls :
        /\ Invalid(c) /\ req[c].cred = "" /\ pc[c] = "done"
        /\ res[c].err = "ValidationError"
        /\ Len(clusters) > 0

\* ------------------------------------------------------------------ C4
\* C4 (as claimed): a FindCluster of an id with no row in storage (hence
\* never registered) returns ClusterNotFoundError, or the storage failure
\* when the read itself failed, and no cluster value.
C4_NotFoundError ==
    \A f \in Calls :
        (req[f].op = "find" /\ pc[f] = "done" /\ clustersTbl[req[f].id] = 0)
        => /\ res[f].err \in {ClusterNotFoundError, "StorageError"}
           /\ res[f].kind = "nil"

\* ------------------------------------------------------------------ C5
\* C5: the step of DeleteCluster that rebuilds the registry leaves no entry
\* with the id, so a lookup of the id in the registry misses; and the steps
\* the call takes after it, up to its return of nil, do not touch the
\* registry or storage, whose rows for the id are still there.
C5_DeleteThenLookup ==
    [][\A d \in Calls : req[d].op = "delete" =>
          /\ (pc[d] = "del_remove" /\ pc'[d] # pc[d]) =>
                /\ RegistryLookup(clusters', req[d].id) = 0
                /\ EntriesWithID(req[d].id)' = {}
                /\ clustersTbl'[req[d].id] > 0
          /\ (pc[d] \in {"ev_lock", "ev_send"} /\ pc'[d] # pc[d]) =>
                UNCHANGED <<clusters, clustersTbl, awsTbl>>]_vars

\* a DeleteCluster returned nil; the id is out of the registry, its rows remain
C5_Witness ==
    \E d \in Calls :
        /\ req[d].op = "delete" /\ pc[d] = "done" /\ res[d].err = "nil"
        /\ RegistryLookup(clusters, req[d].id) = 0
        /\ clustersTbl[req[d].id] > 0 /\ awsTbl[req[d].id] > 0

\* ------------------------------------------------------------------ C6
\* the launches with an id no other launch uses
UniqueID(c) ==
    \A o \in Calls : (o # c /\ req[o].op = "launch") => req[o].id # req[c].id

\* C6: as long as no DeleteCluster was called, the registry holds exactly
\* one entry per launch that has registered, none lost and none twice; with
\* distinct ids the entry of each launch is the one FindCluster's scan
\* returns for its id.
C6_ConcurrentLaunches ==
    (\A d \in Calls : req[d].op # "delete") =>
        /\ Len(clusters) = Cardinality({c \in Calls : Registered(c)})
        /\ \A c \in Calls : Registered(c) =>
              /\ Cardinality(EntriesOf(c)) = 1
              /\ UniqueID(c) =>
                    /\ Cardinality(EntriesWithID(req[c].id)) = 1
                    /\ RegistryLookup(clusters, req[c].id) \in EntriesOf(c)

\* two launches with distinct ids, both still in flight, both registered
C6_Witness ==
    \E c1, c2 \in Calls :
        /\ c1 # c2 /\ req[c1].id # req[c2].id
        /\ Registered(c1) /\ Registered(c2)
        /\ pc[c1] # "done" /\ pc[c2] # "done"
        /\ Len(clusters) = 2

\* ------------------------------------------------------------------ C7
\* call c waits for a lock that c itself holds
SelfBlocked(c) ==
    \/ pc[c] \in {"save_lock", "del_lock"} /\ (dbMtx.w = c \/ c \in dbMtx.r)
    \/ pc[c] = "find_db_rlock" /\ dbMtx.w = c
    \/ pc[c] \in {"reg_lock", "del_reg_lock"} /\ (clustersMtx.w = c \/ c \in clustersMtx.r)
    \/ pc[c] = "find_rlock" /\ clustersMtx.w = c
    \/ pc[c] = "ev_lock" /\ eventsMtx = c

\* C7 (as claimed): no call ever waits for a lock it already holds, so
\* every call can go on to return.
C7_NoCallBlocksForever == \A c \in Calls : ~SelfBlocked(c)

\* ------------------------------------------------------------------ C8
\* C8 (as claimed): a DeleteCluster of an id that is in neither the registry
\* nor storage, running alone, can always take its next step towards
\* returning the not-found error.
C8_DeleteAbsentReturns ==
    \A d \in Calls :
        (/\ req[d].op = "delete" /\ InFlight = {d}
         /\ EntriesWithID(req[d].id) = {} /\ clustersTbl[req[d].id] = 0)
        => ENABLED CallStep(d)

\* ------------------------------------------------------------------ C9
\* C9: the committed rows of clusters and aws_clusters agree for every id,
\* and there is one row per launch of the id whose transaction committed:
\* a save that failed at either insert, at Begin or at Commit left no row
\* in either table.
C9_AtomicSave ==
    \A id \in Ids :
        /\ clustersTbl[id] = awsTbl[id]
        /\ clustersTbl[id] = Cardinality({c \in Calls : Committed(c) /\ req[c].id = id})

\* the second insert failed after the first had succeeded, and the id has
\* no row in the first table
C9_Witness ==
    \E c \in Calls :
        /\ req[c].op = "launch" /\ pc[c] = "done" /\ res[c].err = "ExecErrorAWS"
        /\ clustersTbl[req[c].id] = 0 /\ awsTbl[req[c].id] = 0

\* ------------------------------------------------------------------ C10
\* C10: no step of a DeleteCluster call changes a row of clusters,
\* aws_clusters or domains, or the open transaction; and once a delete has
\* removed an id from the registry, the storage reads of FindCluster still
\* find the id's row and rebuild a cluster with that id.
C10_DeleteKeepsRows ==
    /\ [][\A d \in Calls :
            (req'[d].op = "delete" /\ pc'[d] # pc[d])
            => UNCHANGED <<clustersTbl, awsTbl, domains, tx>>]_vars
    /\ [](\A id \in Ids : DelRemoved(id) =>
            /\ QueryCluster(clustersTbl, domains, id, "ok", "ok").err = "nil"
            /\ QueryCluster(clustersTbl, domains, id, "ok", "ok").kind = "storage"
            /\ QueryCluster(clustersTbl, domains, id, "ok", "ok").id = id)

\* after a DeleteCluster returned nil, a FindCluster of the id missed the
\* registry and got the cluster back from storage
C10_Witness ==
    \E d, f \in Calls :
        /\ req[d].op = "delete" /\ pc[d] = "done" /\ res[d].err = "nil"
        /\ req[f].op = "find" /\ req[f].id = req[d].id /\ f > d
        /\ pc[f] = "done" /\ res[f].err = "nil" /\ res[f].kind = "storage"
        /\ res[f].id = req[d].id

\* ------------------------------------------------------------------ C13
HoldsDb(c) == dbMtx.w = c \/ c \in dbMtx.r
HoldsReg(c) == clustersMtx.w = c \/ c \in clustersMtx.r
HoldsEv(c) == eventsMtx = c

\* call c is at an acquisition of the persistence / registry / events lock
WantsDb(c) == pc[c] \in {"save_lock", "del_lock", "find_db_rlock"}
WantsReg(c) == pc[c] \in {"reg_lock", "del_reg_lock", "find_rlock"}
WantsEv(c) == pc[c] = "ev_lock"

\* C13 (as claimed): no call holds two of the locks at once, and no call
\* holds one lock while it is at the acquisition of another; DeleteCluster
\* does not hold dbMtx while FindCluster acquires clustersMtx.
C13_LockDiscipline ==
    \A c \in Calls :
        /\ ~(HoldsDb(c) /\ HoldsReg(c))
        /\ ~(HoldsDb(c) /\ HoldsEv(c))
        /\ ~(HoldsReg(c) /\ HoldsEv(c))
        /\ WantsDb(c) => ~HoldsReg(c) /\ ~HoldsEv(c)
        /\ WantsReg(c) => ~HoldsDb(c) /\ ~HoldsEv(c)
        /\ WantsEv(c) => ~HoldsDb(c) /\ ~HoldsReg(c)

\* ------------------------------------------------------------------ C14
\* C14: the steps of a launch come in the order validate, commit, register,
\* emit, run: a launch that holds the persistence lock or has registry
\* entries passed validation; its registry entry has committed rows; its
\* new_cluster event is in the log only once it was registered (its entry
\* is there unless a delete removed the id since), never while the call is
\* still saving or registering; and its Run was started only once the
\* event is in the log.
C14_LaunchStepOrder ==
    \A c \in Calls : req[c].op = "launch" =>
        /\ (pc[c] \notin {"init", "done"} \/ EntriesOf(c) # {})
              => req[c].type = "aws" /\ SetDefaultsAndValidate(req[c]) = "nil"
        /\ EntriesOf(c) # {}
              => /\ clustersTbl[req[c].id] > 0 /\ awsTbl[req[c].id] > 0
                 /\ pc[c] \notin {"save_lock", "save_begin", "save_exec", "save_exec2",
                                  "save_commit", "reg_lock", "reg_append"}
        /\ InSeq(NewClusterEvent(c), events)
              => /\ EntriesOf(c) # {} \/ DelRemoved(req[c].id)
                 /\ pc[c] \in {"run", "done"}
        /\ c \in running
              => /\ InSeq(NewClusterEvent(c), events)
                 /\ pc[c] = "done"

\* a launch went through all five steps
C14_Witness ==
    \E c \in Calls :
        /\ LaunchedOK(c) /\ c \in running
        /\ InSeq(NewClusterEvent(c), events)
        /\ EntriesOf(c) # {}
        /\ clustersTbl[req[c].id] > 0

\* ------------------------------------------------------------------ C15
SavePcs == {"save_begin", "save_exec", "save_exec2", "save_commit"}

SaveErrors == {"MarshalError", "BeginError", "ExecErrorClusters", "ExecErrorAWS",
               "CommitError"}

\* the errors the statement at a position of saveAWSCluster can produce
ErrorsAt(l) ==
    IF l = "save_begin" THEN {"MarshalError", "BeginError"}
    ELSE IF l = "save_exec" THEN {"ExecErrorClusters"}
    ELSE IF l = "save_exec2" THEN {"ExecErrorAWS"}
    ELSE {"CommitError"}

\* C15: a launch leaves saveAWSCluster either from tx.Commit with one more
\* row for its id in both tables, going on to register; or by returning the
\* error of the failing statement itself, with no row added to either
\* table, the transaction gone, the persistence lock released and the
\* registry, the event log, the inboxes and the started tasks untouched.  A
\* launch that returned such an error has no registry entry, no event and
\* no running task.
C15_SaveFails ==
    /\ [][\A c \in Calls : (pc[c] \in SavePcs /\ pc'[c] \notin SavePcs) =>
            \/ /\ pc[c] = "save_commit" /\ pc'[c] = "reg_lock"
               /\ clustersTbl'[req[c].id] = clustersTbl[req[c].id] + 1
               /\ awsTbl'[req[c].id] = awsTbl[req[c].id] + 1
            \/ /\ pc'[c] = "done"
               /\ res'[c].err \in ErrorsAt(pc[c])
               /\ res'[c] = RetErr(res'[c].err)
               /\ tx' = NoTx
               /\ dbMtx'.w = None
               /\ UNCHANGED <<clustersTbl, awsTbl, domains, clusters, events, inbox,
                              running>>]_vars
    /\ [](\A c \in Calls :
            (req[c].op = "launch" /\ pc[c] = "done" /\ res[c].err \in SaveErrors)
            => /\ EntriesOf(c) = {}
               /\ c \notin running
               /\ \A k \in 1..Len(events) : events[k].Cluster # c)

\* a launch whose tx.Commit failed: no row for its id, no entry, lock free
C15_Witness ==
    \E c \in Calls :
        /\ req[c].op = "launch" /\ pc[c] = "done" /\ res[c].err = "CommitError"
        /\ clustersTbl[req[c].id] = 0 /\ awsTbl[req[c].id] = 0
        /\ EntriesOf(c) = {} /\ tx = NoTx /\ dbMtx.w = None

\* ------------------------------------------------------------------ C16
\* C16 (as claimed): no two registry entries share a cluster id and no two
\* rows of table clusters share an ID.
C16_UniqueIDs ==
    \A id \in Ids :
        /\ Cardinality(EntriesWithID(id)) <= 1
        /\ clustersTbl[id] <= 1

\* ------------------------------------------------------------------ C18
\* C18 (as claimed): every cluster_deleted event in the log comes after a
\* new_cluster event for the same id; and once a launch and a delete of the
\* same id have both returned nil (and no other launch used the id), the
\* id is not in the registry.
C18_EventOrder ==
    /\ \A k \in 1..Len(events) : events[k].Type = "cluster_deleted" =>
          \E j \in 1..(k - 1) :
              /\ events[j].Type = "new_cluster"
              /\ events[j].ClusterID = events[k].ClusterID
    /\ \A c, d \in Calls :
          (/\ LaunchedOK(c) /\ UniqueID(c)
           /\ req[d].op = "delete" /\ req[d].id = req[c].id
           /\ pc[d] = "done" /\ res[d].err = "nil")
          => EntriesWithID(req[c].id) = {}

\* ------------------------------------------------------------------ C11
CredFinds == {c \in CredCalls : /\ credCall[c].op = "find" /\ credCall[c].pc = "done"
                                /\ credCall[c].id # EnvID}

\* C11 (as claimed): a FindAWSCredentials(id) made after a
\* SaveAWSCredentials(id, secret) returned nil returns the credential built
\* from that id and that secret (unless the read itself fails), for every
\* such save; and for an id no save was ever called with it returns an
\* error and no credential.
C11_RoundTripAnySave ==
    \A c \in CredFinds :
        /\ \A s \in credCall[c].seen :
              \/ /\ credCall[c].err = "nil" /\ credCall[c].kind = "stored"
                 /\ credCall[c].rid = credCall[c].id /\ credCall[c].rsecret = s
              \/ credCall[c].err = "ScanError" /\ credCall[c].kind = "nil"
        /\ credCall[c].begun = {}
              => credCall[c].err # "nil" /\ credCall[c].kind = "nil"

\* C11 (amended): when every SaveAWSCredentials call made with the id so
\* far carried the same secret and one of them had returned nil before the
\* find was called, the find returns the credential built from that id and
\* that secret, unless the read itself fails; for an id no save was ever
\* called with it returns an error and no credential.
C11_RoundTrip ==
    \A c \in CredFinds :
        /\ \A s \in credCall[c].seen :
              credCall[c].begun = {s} =>
                \/ /\ credCall[c].err = "nil" /\ credCall[c].kind = "stored"
                   /\ credCall[c].rid = credCall[c].id /\ credCall[c].rsecret = s
                \/ credCall[c].err = "ScanError" /\ credCall[c].kind = "nil"
        /\ credCall[c].begun = {}
              => credCall[c].err # "nil" /\ credCall[c].kind = "nil"

\* a find after one committed save of its id returned that pair, while a
\* row of another id with another secret is stored too
C11_Witness ==
    \E c \in CredFinds :
        /\ credCall[c].seen # {} /\ credCall[c].begun = credCall[c].seen
        /\ credCall[c].err = "nil" /\ credCall[c].rsecret \in credCall[c].seen
        /\ \E r \in credentials : r.ID # credCall[c].id /\ r.Secret \notin credCall[c].seen

\* ------------------------------------------------------------------ C12
\* C12: a FindAWSCredentials("aws_env") call returns in its first step,
\* with the result of aws.EnvCreds(), and that step touches neither the
\* persistence lock nor the credentials table, whoever holds the lock and
\* whatever is stored; such a call never waits for or holds the lock and
\* never returns a credential built from a stored row.
C12_ReservedFromEnv ==
    /\ [][\A c \in CredCalls :
            (credCall[c].pc = "init" /\ credCall'[c].op = "find"
             /\ credCall'[c].id = EnvID)
            => /\ credCall'[c].pc = "done"
               /\ credCall'[c].kind = "env"
               /\ UNCHANGED <<dbMtx, credentials, credTx>>]_vars
    /\ [](\A c \in CredCalls :
            (credCall[c].op = "find" /\ credCall[c].id = EnvID)
            => /\ credCall[c].pc = "done"
               /\ credCall[c].kind = "env"
               /\ dbMtx.w # c /\ c \notin dbMtx.r)

\* the reserved id was resolved while a writer held the persistence lock
\* and a row with the reserved id was stored
C12_Witness ==
    \E c \in CredCalls :
        /\ credCall[c].op = "find" /\ credCall[c].id = EnvID
        /\ credCall[c].pc = "done" /\ credCall[c].err = "nil"
        /\ credCall[c].held /\ credCall[c].stored

\* ------------------------------------------------------------------ C19
\* C19 (as claimed): however many Close calls are made on a stream, none
\* closes StopCh when it is closed already (no panic), and every Close that
\* returned returned nil.
C19_CloseIdempotent ==
    /\ ~panicked
    /\ \A g \in Gos : gor[g].pc # "panic"
    /\ \A g \in Gos : (gor[g].op = "close" /\ gor[g].pc = "idle") => gor[g].ret = "nil"

\* ------------------------------------------------------------------ C20
\* C20 (as claimed): an IsClosed call made after some Close call returned
\* returns true, one made before any Close call returns false, and IsClosed
\* returns true exactly when StopCh is closed.
C20_IsClosedTracksClose ==
    \A g \in Gos : (gor[g].op = "isclosed" /\ gor[g].pc = "idle") =>
        /\ gor[g].after => gor[g].ret = "true"
        /\ gor[g].ch = "open" => gor[g].ret = "false"
        /\ gor[g].ch = "closed" => gor[g].ret = "true"

\* ------------------------------------------------------------------ C17
\* C17 (as claimed): once NewInstaller has run again over the same storage,
\* every id with a row in table clusters is in the registry (or a launch of
\* it is between its commit and its append right now), and a FindCluster
\* of an id whose launch had returned nil never reports that there is no
\* such cluster.
C17_RestartKeepsClusters ==
    restarts > 0 =>
        /\ \A id \in Ids : clustersTbl[id] > 0 =>
              \/ EntriesWithID(id) # {}
              \/ \E c \in Calls : /\ req[c].op = "launch" /\ req[c].id = id
                                  /\ pc[c] \in {"reg_lock", "reg_append"}
        /\ \A c \in Calls :
              (req[c].op = "find" /\ pc[c] = "done" /\ req[c].after)
              => res[c].err # "ErrNoRows"

====
